---- MODULE Spec2Model ----
(***************************************************************************)
(* SparkBase._spark_schema (src/src/pydantic_spark/base.py): the recursive *)
(* translation of a pydantic JSON schema into a Spark struct schema,       *)
(* modelled as a small-step machine.  The Python call stack is the         *)
(* variable `stack`; `ctl` is the call being entered or the value being    *)
(* returned; `classes_seen` is the dict of line 19.                        *)
(***************************************************************************)
EXTENDS Integers, Sequences, FiniteSets, TLC

VARIABLES schema, classes_seen, stack, ctl, pc, err, result, entered, emitted

vars == <<schema, classes_seen, stack, ctl, pc, err, result, entered, emitted>>

(***************************************************************************)
(* Bounds of the model.                                                    *)
(***************************************************************************)
\* largest number of properties of the root schema
MaxProps == 2
\* cap of the modelled call stack (never reached by the translation itself)
MaxStack == 12

(***************************************************************************)
(* Python values.  A str is [k |-> "str", s |-> ...]; None is              *)
(* [k |-> "None"]; a dict that stands for a Spark type is tagged by `k`.   *)
(***************************************************************************)
Str(x) == [k |-> "str", s |-> x]
None == [k |-> "None"]
InProgress == Str("in progress")

ArrayType(tn) == [k |-> "array", elementType |-> tn, containsNull |-> TRUE]
MapType(value_type) ==
    [k |-> "map", keyType |-> "string", valueType |-> value_type, valueContainsNull |-> TRUE]
StructType(fields) == [k |-> "struct", fields |-> fields]
\* the dict {"type": <dict>} of lines 73-80: a dict whose "type" entry is itself a dict
TypeWrapper(t) == [k |-> "wrapper", type |-> t]
CyclePlaceholder == TypeWrapper(MapType(Str("string")))

NoMetadata == [hasDefault |-> FALSE, logicalType |-> "none", parentClass |-> "none"]

(***************************************************************************)
(* Field descriptors: the dict `value`, read with value.get(...).  A key   *)
(* that is absent is "none", <<>> or FALSE.                                *)
(***************************************************************************)
Desc(t, f, r, items, a, anyof, d) ==
    [type |-> t, format |-> f, ref |-> r, items |-> items,
     additionalProperties |-> a, anyOf |-> anyof, hasDefault |-> d]
Prim(t, f) == Desc(t, f, "none", <<>>, <<>>, <<>>, FALSE)
Ref(n) == Desc("none", "none", n, <<>>, <<>>, <<>>, FALSE)
Arr(items) == Desc("array", "none", "none", <<items>>, <<>>, <<>>, FALSE)
Obj(a) == Desc("object", "none", "none", <<>>, a, <<>>, FALSE)
AnyOf(alts) == Desc("none", "none", "none", <<>>, <<>>, alts, FALSE)
WithDefault(v) == [v EXCEPT !.hasDefault = TRUE]

Prop(key, value) == [key |-> key, value |-> value]
Keys(s) == {s.properties[i].key : i \in 1..Len(s.properties)}

EnumDef(t) == [isEnum |-> TRUE, type |-> t, title |-> "none", required |-> {}, properties |-> <<>>]
StructDef(title, required, props) ==
    [isEnum |-> FALSE, type |-> "object", title |-> title, required |-> required, properties |-> props]

(***************************************************************************)
(* get_type, lines 50-52 and 94-116: the rules for the primitive tokens.   *)
(***************************************************************************)
\* lines 50-52: t = value.get("type"), 'list' for a typeless anyOf, else None
EffectiveType(value) ==
    IF value.type # "none" THEN value.type
    ELSE IF value.anyOf # <<>> THEN "list" ELSE "None"

\* primitive_type with format "time" left without any rule
primitive_type_without_time(t, f) ==
    CASE t = "string" /\ f = "date-time" -> [k |-> "str", s |-> "timestamp"]
      [] t = "string" /\ f = "date" -> [k |-> "str", s |-> "date"]
      [] t = "string" /\ f = "uuid" -> [k |-> "str", s |-> "string"]
      [] t = "string" /\ f \notin {"date-time", "date", "uuid", "time"} -> [k |-> "str", s |-> "string"]
      [] t = "number" -> [k |-> "str", s |-> "double"]
      [] t = "integer" -> [k |-> "str", s |-> "long"]
      [] t = "boolean" -> [k |-> "str", s |-> "boolean"]
      [] t = "list" -> [k |-> "str", s |-> "string"]
      [] OTHER -> [k |-> "None"]

\* lines 94-116 (the branch for format "time", lines 98-102, is commented out in
\* the source, so ("string", "time") reaches the plain "string" rule of line 106).
\* None when no rule of lines 94-116 applies.
primitive_type(t, f) ==
    CASE t = "string" /\ f = "date-time" -> Str("timestamp")
      [] t = "string" /\ f = "date" -> Str("date")
      [] t = "string" /\ f = "uuid" -> Str("string")
      [] t = "string" /\ f \notin {"date-time", "date", "uuid"} -> Str("string")
      [] t = "number" -> Str("double")
      [] t = "integer" -> Str("long")
      [] t = "boolean" -> Str("boolean")
      [] t = "list" -> Str("string")
      [] OTHER -> None

\* lines 56-58 and 105: the metadata get_type starts from
InitialMetadata(value) == [NoMetadata EXCEPT !.hasDefault = value.hasDefault]
PrimitiveMetadata(value) ==
    IF value.type = "string" /\ value.format = "uuid"
    THEN [InitialMetadata(value) EXCEPT !.logicalType = "uuid"]
    ELSE InitialMetadata(value)

\* lines 32-41: the Spark type of an enum definition, None for "Unknown enum type"
enum_spark_type(enum_type) ==
    CASE enum_type = "string" -> Str("string")
      [] enum_type = "number" -> Str("double")
      [] enum_type = "integer" -> Str("long")
      [] OTHER -> None

\* the pattern of line 148 matching a struct dict instead of the str "struct"
MatchesStructDict(first_subtype) == first_subtype.k = "struct"

\* line 148: `case "struct"` is a value pattern: it matches when first_subtype
\* equals the str "struct"
MatchesStructLiteral(first_subtype) ==
    first_subtype.k = "str" /\ first_subtype.s = "struct"

(***************************************************************************)
(* get_fields, lines 149-171: merging the fields of the alternatives.      *)
(***************************************************************************)
IndexOfName(subtype_fields, name) ==
    IF \E n \in 1..Len(subtype_fields) : subtype_fields[n].name = name
    THEN CHOOSE n \in 1..Len(subtype_fields) : subtype_fields[n].name = name
    ELSE 0

\* lines 154-155: subtype_fields[field["name"]].append(field), in insertion order
RECURSIVE Coalesce(_, _)
Coalesce(subtype_fields, spark_type_fields) ==
    IF spark_type_fields = <<>> THEN subtype_fields
    ELSE LET field == Head(spark_type_fields)
             n == IndexOfName(subtype_fields, field.name)
             added == IF n = 0
                      THEN Append(subtype_fields, [name |-> field.name, subfields |-> <<field>>])
                      ELSE [subtype_fields EXCEPT ![n].subfields = Append(@, field)]
         IN Coalesce(added, Tail(spark_type_fields))

\* lines 157-169 (in the source first_field is the dict of the first alternative's
\* struct itself; here the merged field is a copy)
Unique(subtype_fields, n_anyof, p_class) ==
    [n \in 1..Len(subtype_fields) |->
        LET subfields == subtype_fields[n].subfields
            first_field == subfields[1]
            nullable == IF Len(subfields) = n_anyof
                        THEN \A m \in 1..Len(subfields) : subfields[m].nullable
                        ELSE TRUE
        IN [first_field EXCEPT !.nullable = nullable, !.metadata.parentClass = p_class]]

\* lines 180-186
struct_field(s, key, spark_type, metadata) ==
    [name |-> key,
     nullable |-> ~metadata.hasDefault /\ key \notin s.required,
     metadata |-> [metadata EXCEPT !.parentClass = s.title],
     type |-> spark_type]

(***************************************************************************)
(* The machine.                                                            *)
(***************************************************************************)
Top == stack[Len(stack)]
Pop == SubSeq(stack, 1, Len(stack) - 1)
ReplaceTop(frame) == [stack EXCEPT ![Len(stack)] = frame]

Call_get_type(value) == [op |-> "get_type", value |-> value]
Call_get_fields(s) == [op |-> "get_fields", s |-> s]
NextProperty == [op |-> "loop"]
Return(val) == [op |-> "return", val |-> val]
TypeResult(spark_type, metadata) == [spark_type |-> spark_type, metadata |-> metadata]

NoError == [kind |-> "none", what |-> "none"]
NoResult == [type |-> "none", fields |-> <<>>]

\* an exception leaves _spark_schema: nothing is returned
Raise(kind, what) ==
    /\ pc' = "error"
    /\ err' = [kind |-> kind, what |-> what]
    /\ stack' = <<>>
    /\ ctl' = [op |-> "raised"]
    /\ UNCHANGED <<schema, result, emitted>>

InGetType == pc = "run" /\ ctl.op = "get_type"
class_name == ctl.value.ref
HasRoom == Len(stack) < MaxStack

\* line 61, `case None`
CacheIsNone(cn) == classes_seen[cn] = None
\* line 69, `case "in progress"`
CacheIsInProgress(cn) == classes_seen[cn] = InProgress

\* lines 62-66 with 21-25: the definition does not exist
get_type_ref_missing ==
    /\ InGetType /\ class_name # "none"
    /\ CacheIsNone(class_name)
    /\ class_name \notin DOMAIN schema.definitions
    /\ classes_seen' = [classes_seen EXCEPT ![class_name] = InProgress]
    /\ entered' = [entered EXCEPT ![class_name] = @ + 1]
    /\ Raise("missing definition", class_name)

\* lines 62-67 with 32-41: an enum definition
get_type_ref_enum ==
    /\ InGetType /\ class_name # "none"
    /\ CacheIsNone(class_name)
    /\ class_name \in DOMAIN schema.definitions
    /\ LET d == schema.definitions[class_name]
           spark_type == enum_spark_type(d.type)
       IN /\ d.isEnum
          /\ entered' = [entered EXCEPT ![class_name] = @ + 1]
          /\ IF spark_type = None
             THEN /\ classes_seen' = [classes_seen EXCEPT ![class_name] = InProgress]
                  /\ Raise("unknown enum type", d.type)
             ELSE /\ classes_seen' = [classes_seen EXCEPT ![class_name] = spark_type]
                  /\ ctl' = Return(TypeResult(spark_type, InitialMetadata(ctl.value)))
                  /\ UNCHANGED <<schema, stack, pc, err, result, emitted>>

\* get_type_ref_struct without the mark of line 65
get_type_ref_struct_unmarked ==
    /\ InGetType /\ class_name # "none"
    /\ CacheIsNone(class_name)
    /\ class_name \in DOMAIN schema.definitions
    /\ ~schema.definitions[class_name].isEnum
    /\ HasRoom
    /\ entered' = [entered EXCEPT ![class_name] = @ + 1]
    /\ stack' = Append(stack, [k |-> "ref", class_name |-> class_name,
                               metadata |-> InitialMetadata(ctl.value)])
    /\ ctl' = Call_get_fields(schema.definitions[class_name])
    /\ UNCHANGED <<schema, classes_seen, pc, err, result, emitted>>

\* lines 62-66 with 42-46: a struct definition; its body is entered
get_type_ref_struct ==
    /\ InGetType /\ class_name # "none"
    /\ CacheIsNone(class_name)
    /\ class_name \in DOMAIN schema.definitions
    /\ ~schema.definitions[class_name].isEnum
    /\ HasRoom
    /\ classes_seen' = [classes_seen EXCEPT ![class_name] = InProgress]
    /\ entered' = [entered EXCEPT ![class_name] = @ + 1]
    /\ stack' = Append(stack, [k |-> "ref", class_name |-> class_name,
                               metadata |-> InitialMetadata(ctl.value)])
    /\ ctl' = Call_get_fields(schema.definitions[class_name])
    /\ UNCHANGED <<schema, pc, err, result, emitted>>

\* the in-progress case entering the definition again instead of ending the recursion
get_type_ref_in_progress_reentering ==
    /\ InGetType /\ class_name # "none"
    /\ ~CacheIsNone(class_name)
    /\ CacheIsInProgress(class_name)
    /\ HasRoom
    /\ entered' = [entered EXCEPT ![class_name] = @ + 1]
    /\ stack' = Append(stack, [k |-> "ref", class_name |-> class_name,
                               metadata |-> InitialMetadata(ctl.value)])
    /\ ctl' = Call_get_fields(schema.definitions[class_name])
    /\ UNCHANGED <<schema, classes_seen, pc, err, result, emitted>>

\* lines 69-81: the name is being resolved further up the stack
get_type_ref_in_progress ==
    /\ InGetType /\ class_name # "none"
    /\ ~CacheIsNone(class_name)
    /\ CacheIsInProgress(class_name)
    /\ classes_seen' = [classes_seen EXCEPT ![class_name] = CyclePlaceholder]
    /\ ctl' = Return(TypeResult(CyclePlaceholder, InitialMetadata(ctl.value)))
    /\ UNCHANGED <<schema, stack, pc, err, result, entered, emitted>>

\* the finished case resolving the definition again instead of reusing the cache
get_type_ref_seen_resolving_again ==
    /\ InGetType /\ class_name # "none"
    /\ ~CacheIsNone(class_name)
    /\ ~CacheIsInProgress(class_name)
    /\ IF schema.definitions[class_name].isEnum
       THEN /\ ctl' = Return(TypeResult(classes_seen[class_name], InitialMetadata(ctl.value)))
            /\ UNCHANGED <<stack, entered>>
       ELSE /\ HasRoom
            /\ entered' = [entered EXCEPT ![class_name] = @ + 1]
            /\ stack' = Append(stack, [k |-> "ref", class_name |-> class_name,
                                       metadata |-> InitialMetadata(ctl.value)])
            /\ ctl' = Call_get_fields(schema.definitions[class_name])
    /\ UNCHANGED <<schema, classes_seen, pc, err, result, emitted>>

\* lines 83-84
get_type_ref_seen ==
    /\ InGetType /\ class_name # "none"
    /\ ~CacheIsNone(class_name)
    /\ ~CacheIsInProgress(class_name)
    /\ ctl' = Return(TypeResult(classes_seen[class_name], InitialMetadata(ctl.value)))
    /\ UNCHANGED <<schema, classes_seen, stack, pc, err, result, entered, emitted>>

\* lines 86-88: get_type(items); value.get("items") is None when the key is absent
get_type_array ==
    /\ InGetType /\ class_name = "none"
    /\ EffectiveType(ctl.value) = "array"
    /\ IF ctl.value.items = <<>>
       THEN Raise("AttributeError", "items") /\ UNCHANGED <<classes_seen, entered>>
       ELSE /\ HasRoom
            /\ stack' = Append(stack, [k |-> "array"])
            /\ ctl' = Call_get_type(ctl.value.items[1])
            /\ UNCHANGED <<schema, classes_seen, pc, err, result, entered, emitted>>

\* lines 94-116
get_type_primitive ==
    /\ InGetType /\ class_name = "none"
    /\ EffectiveType(ctl.value) # "array"
    /\ primitive_type(EffectiveType(ctl.value), ctl.value.format) # None
    /\ ctl' = Return(TypeResult(primitive_type(EffectiveType(ctl.value), ctl.value.format),
                                PrimitiveMetadata(ctl.value)))
    /\ UNCHANGED <<schema, classes_seen, stack, pc, err, result, entered, emitted>>

\* lines 117-119 and 124: no additionalProperties
get_type_object ==
    /\ InGetType /\ class_name = "none"
    /\ EffectiveType(ctl.value) = "object"
    /\ ctl.value.additionalProperties = <<>>
    /\ ctl' = Return(TypeResult(MapType(Str("string")), InitialMetadata(ctl.value)))
    /\ UNCHANGED <<schema, classes_seen, stack, pc, err, result, entered, emitted>>

\* lines 117-121: get_type(a)
get_type_object_additional ==
    /\ InGetType /\ class_name = "none"
    /\ EffectiveType(ctl.value) = "object"
    /\ ctl.value.additionalProperties # <<>>
    /\ HasRoom
    /\ stack' = Append(stack, [k |-> "object", metadata |-> InitialMetadata(ctl.value)])
    /\ ctl' = Call_get_type(ctl.value.additionalProperties[1])
    /\ UNCHANGED <<schema, classes_seen, pc, err, result, entered, emitted>>

\* the last branch degrading to "string" instead of raising
get_type_unsupported_degrading ==
    /\ InGetType /\ class_name = "none"
    /\ EffectiveType(ctl.value) \notin {"array", "object"}
    /\ primitive_type(EffectiveType(ctl.value), ctl.value.format) = None
    /\ ctl' = Return(TypeResult(Str("string"), InitialMetadata(ctl.value)))
    /\ UNCHANGED <<schema, classes_seen, stack, pc, err, result, entered, emitted>>

\* lines 125-129
get_type_unsupported ==
    /\ InGetType /\ class_name = "none"
    /\ EffectiveType(ctl.value) \notin {"array", "object"}
    /\ primitive_type(EffectiveType(ctl.value), ctl.value.format) = None
    /\ Raise("unsupported type", EffectiveType(ctl.value))
    /\ UNCHANGED <<classes_seen, entered>>

(***************************************************************************)
(* get_fields, lines 132-188.  Its frame holds the struct `s`, the index   *)
(* `i` of the property the loop of line 137 is at, the list `fields`, and  *)
(* for a union the alternative `j` and `subtype_fields`.                   *)
(***************************************************************************)
FieldsFrame(s) ==
    [k |-> "get_fields", s |-> s, i |-> 1, fields |-> <<>>,
     phase |-> "loop", j |-> 0, subtype_fields |-> <<>>]

InLoop == pc = "run" /\ ctl.op = "loop"
CurrentProperty == Top.s.properties[Top.i]

\* lines 134-136
get_fields_enter ==
    /\ pc = "run" /\ ctl.op = "get_fields"
    /\ HasRoom
    /\ stack' = Append(stack, FieldsFrame(ctl.s))
    /\ ctl' = NextProperty
    /\ UNCHANGED <<schema, classes_seen, pc, err, result, entered, emitted>>

\* lines 137, 177-178: a property that is no union
get_fields_plain ==
    /\ InLoop
    /\ Top.i <= Len(Top.s.properties)
    /\ CurrentProperty.value.anyOf = <<>>
    /\ stack' = ReplaceTop([Top EXCEPT !.phase = "plain"])
    /\ ctl' = Call_get_type(CurrentProperty.value)
    /\ UNCHANGED <<schema, classes_seen, pc, err, result, entered, emitted>>

\* lines 137, 141-143: a union; its first alternative is mapped
get_fields_anyof ==
    /\ InLoop
    /\ Top.i <= Len(Top.s.properties)
    /\ CurrentProperty.value.anyOf # <<>>
    /\ stack' = ReplaceTop([Top EXCEPT !.phase = "first"])
    /\ ctl' = Call_get_type(CurrentProperty.value.anyOf[1])
    /\ UNCHANGED <<schema, classes_seen, pc, err, result, entered, emitted>>

\* line 188
get_fields_return ==
    /\ InLoop
    /\ Top.i > Len(Top.s.properties)
    /\ stack' = Pop
    /\ ctl' = Return(Top.fields)
    /\ UNCHANGED <<schema, classes_seen, pc, err, result, entered, emitted>>

\* lines 180-187: the field is appended and the loop goes on
AppendField(spark_type, metadata) ==
    LET s == Top.s
        p == CurrentProperty
        field == struct_field(s, p.key, spark_type, metadata)
    IN /\ stack' = ReplaceTop([Top EXCEPT !.fields = Append(@, field), !.i = @ + 1,
                                          !.phase = "loop", !.j = 0,
                                          !.subtype_fields = <<>>])
       /\ ctl' = NextProperty
       /\ emitted' = emitted \cup {[parentClass |-> s.title, name |-> p.key,
                                    hasDefault |-> p.value.hasDefault,
                                    nullable |-> field.nullable]}
       /\ UNCHANGED <<schema, classes_seen, pc, err, result, entered>>

\* lines 143-187: get_type has returned to get_fields
return_to_get_fields ==
    /\ pc = "run" /\ ctl.op = "return"
    /\ stack # <<>> /\ Top.k = "get_fields"
    /\ LET anyof == CurrentProperty.value.anyOf
           spark_type == ctl.val.spark_type
           metadata == ctl.val.metadata
       IN CASE Top.phase = "plain" -> AppendField(spark_type, metadata)
            [] Top.phase = "first" ->
                 IF MatchesStructLiteral(spark_type)
                 THEN \* lines 149-151
                      /\ stack' = ReplaceTop([Top EXCEPT !.phase = "merge", !.j = 1])
                      /\ ctl' = Call_get_type(anyof[1])
                      /\ UNCHANGED <<schema, classes_seen, pc, err, result, entered, emitted>>
                 ELSE \* lines 174-175
                      AppendField(spark_type, metadata)
            [] Top.phase = "merge" ->
                 IF spark_type.k # "struct"
                 THEN \* line 152 on a str, or line 154 on None
                      Raise("TypeError", "fields") /\ UNCHANGED <<classes_seen, entered>>
                 ELSE LET merged == Coalesce(Top.subtype_fields, spark_type.fields)
                      IN IF Top.j < Len(anyof)
                         THEN /\ stack' = ReplaceTop([Top EXCEPT !.j = @ + 1,
                                                                 !.subtype_fields = merged])
                              /\ ctl' = Call_get_type(anyof[Top.j + 1])
                              /\ UNCHANGED <<schema, classes_seen, pc, err, result,
                                             entered, emitted>>
                         ELSE \* lines 157-171
                              AppendField([spark_type EXCEPT !.fields =
                                              Unique(merged, Len(anyof), Top.s.title)],
                                          metadata)

\* lines 88-93: metadata is the metadata of the items
return_to_array ==
    /\ pc = "run" /\ ctl.op = "return"
    /\ stack # <<>> /\ Top.k = "array"
    /\ stack' = Pop
    /\ ctl' = Return(TypeResult(ArrayType(ctl.val.spark_type), ctl.val.metadata))
    /\ UNCHANGED <<schema, classes_seen, pc, err, result, entered, emitted>>

\* lines 121-124: the metadata of the additionalProperties is dropped
return_to_object ==
    /\ pc = "run" /\ ctl.op = "return"
    /\ stack # <<>> /\ Top.k = "object"
    /\ stack' = Pop
    /\ ctl' = Return(TypeResult(MapType(ctl.val.spark_type), Top.metadata))
    /\ UNCHANGED <<schema, classes_seen, pc, err, result, entered, emitted>>

\* line 67 leaving a placeholder that a cycle has recorded in place
return_to_ref_keeping_placeholder ==
    /\ pc = "run" /\ ctl.op = "return"
    /\ stack # <<>> /\ Top.k = "ref"
    /\ LET spark_type == [k |-> "struct", fields |-> ctl.val]
       IN IF classes_seen[Top.class_name] = InProgress
          THEN /\ classes_seen' = [classes_seen EXCEPT ![Top.class_name] = spark_type]
               /\ ctl' = Return(TypeResult(spark_type, Top.metadata))
          ELSE /\ UNCHANGED classes_seen
               /\ ctl' = Return(TypeResult(classes_seen[Top.class_name], Top.metadata))
    /\ stack' = Pop
    /\ UNCHANGED <<schema, pc, err, result, entered, emitted>>

\* lines 43-46 and 67: the struct of the definition is recorded under its name
return_to_ref ==
    /\ pc = "run" /\ ctl.op = "return"
    /\ stack # <<>> /\ Top.k = "ref"
    /\ LET spark_type == StructType(ctl.val)
       IN /\ classes_seen' = [classes_seen EXCEPT ![Top.class_name] = spark_type]
          /\ ctl' = Return(TypeResult(spark_type, Top.metadata))
    /\ stack' = Pop
    /\ UNCHANGED <<schema, pc, err, result, entered, emitted>>

\* lines 190-192
spark_schema_return ==
    /\ pc = "run" /\ ctl.op = "return"
    /\ stack = <<>>
    /\ result' = [type |-> "struct", fields |-> ctl.val]
    /\ pc' = "done"
    /\ ctl' = [op |-> "returned"]
    /\ UNCHANGED <<schema, classes_seen, stack, err, entered, emitted>>

(***************************************************************************)
(* The input documents.                                                    *)
(***************************************************************************)
RefNames == {"A", "B"}
Integer == Prim("integer", "none")

\* what the property "b" of the struct definition A may be
BodyDescs ==
    { Ref("A"), Ref("B"), Arr(Ref("A")), Obj(<<Ref("B")>>), Obj(<<>>),
      AnyOf(<<Ref("A"), Ref("B")>>), Prim("null", "none") }

Absent == [isEnum |-> FALSE, type |-> "absent", title |-> "none", required |-> {},
           properties |-> <<>>]

\* A is a struct: "a" is an integer or a reference to A itself, "b" is optional
DefChoicesA ==
    {StructDef("A", required, <<Prop("a", Integer)>>) : required \in {{}, {"a"}}}
    \cup {StructDef("A", {}, <<Prop("a", Ref("A"))>>),
          StructDef("A", {}, <<Prop("a", Ref("A")), Prop("b", Ref("A"))>>)}
    \cup {StructDef("A", {}, <<Prop("a", Integer), Prop("b", b)>>) : b \in BodyDescs}

\* B is undefined, an enum, or a struct that may refer back to A
DefChoicesB ==
    {Absent, EnumDef("string"), EnumDef("boolean")}
    \cup {StructDef("B", required, <<Prop("a", Integer)>>) : required \in {{}, {"a"}}}
    \cup {StructDef("B", {}, <<Prop("a", Integer), Prop("b", Ref("A"))>>)}

RootDescs ==
    { Ref("A"), Ref("B"),
      AnyOf(<<Ref("A"), Ref("B")>>),
      Prim("string", "time"),
      WithDefault(Integer),
      WithDefault(Arr(Integer)),
      WithDefault(AnyOf(<<Prim("string", "none"), Ref("A")>>)) }

PropertyKeys == <<"p1", "p2", "p3", "p4">>

\* the definitions table: the names that are defined, each with its definition
Definitions(defs) == [m \in {x \in RefNames : defs[x] # Absent} |-> defs[m]]

\* the first property is required, the others are not
Schemas ==
    { [title |-> "Root", required |-> {"p1"},
       properties |-> [i \in 1..Len(values) |-> Prop(PropertyKeys[i], values[i])],
       definitions |-> Definitions([A |-> defA, B |-> defB])] :
         values \in UNION {[1..n -> RootDescs] : n \in 1..MaxProps},
         defA \in DefChoicesA, defB \in DefChoicesB }

Init ==
    /\ schema \in Schemas
    /\ classes_seen = [n \in RefNames |-> None]
    /\ stack = <<>>
    /\ ctl = Call_get_fields(schema)
    /\ pc = "run"
    /\ err = NoError
    /\ result = NoResult
    /\ entered = [n \in RefNames |-> 0]
    /\ emitted = {}

Next ==
    \/ get_fields_enter
    \/ get_fields_plain
    \/ get_fields_anyof
    \/ get_fields_return
    \/ get_type_ref_missing
    \/ get_type_ref_enum
    \/ get_type_ref_struct
    \/ get_type_ref_in_progress
    \/ get_type_ref_seen
    \/ get_type_array
    \/ get_type_primitive
    \/ get_type_object
    \/ get_type_object_additional
    \/ get_type_unsupported
    \/ return_to_get_fields
    \/ return_to_array
    \/ return_to_object
    \/ return_to_ref
    \/ spark_schema_return

Spec == Init /\ [][Next]_vars

\* the scheduling of one synchronous call: a step that can be taken is taken
FairSpec == Spec /\ WF_vars(Next)

(***************************************************************************)
(* Properties.                                                             *)
(***************************************************************************)
Done == pc = "done"
Failed == pc = "error"

RootProperty(i) == schema.properties[i].value
RootIndices == 1..Len(schema.properties)
IsStructDefinition(n) == n \in DOMAIN schema.definitions /\ ~schema.definitions[n].isEnum
Declares(n, key) == key \in Keys(schema.definitions[n])
HasField(fields, name) == \E m \in 1..Len(fields) : fields[m].name = name
FieldNamed(fields, name) == fields[CHOOSE m \in 1..Len(fields) : fields[m].name = name]

\* a root property that is anyOf of two $ref alternatives, both struct definitions
IsUnionOfTwoStructs(i) ==
    /\ Len(RootProperty(i).anyOf) = 2
    /\ \A m \in 1..2 : /\ RootProperty(i).anyOf[m].ref # "none"
                       /\ IsStructDefinition(RootProperty(i).anyOf[m].ref)
Alternative(i, m) == RootProperty(i).anyOf[m].ref

\* the nullability get_fields gives `key` when the struct definition n is
\* translated on its own (line 183, for a descriptor that is no array)
DeclaredNullable(n, key) ==
    LET d == schema.definitions[n]
        p == d.properties[CHOOSE m \in 1..Len(d.properties) : d.properties[m].key = key]
    IN ~p.value.hasDefault /\ key \notin d.required

\* C1: every emitted field whose descriptor carries `default` is non-nullable,
\* at any depth and for every descriptor shape.
C1_DefaultIsNeverNullable ==
    \A e \in emitted : e.hasDefault => ~e.nullable

\* C2: one call of _spark_schema terminates, on cyclic schemas too: it returns a
\* struct or fails with an error.
C2_Terminates == <>(Done \/ Failed)

C2_CyclicSchemaTranslated ==
    /\ Done
    /\ "B" \in DOMAIN schema.definitions
    /\ schema.definitions["A"].properties = <<Prop("a", Integer), Prop("b", Ref("B"))>>
    /\ schema.definitions["B"].properties = <<Prop("a", Integer), Prop("b", Ref("A"))>>
    /\ entered["A"] = 1 /\ entered["B"] = 1

\* C3: for a root $ref to a definition whose field is a $ref back to that
\* definition, the type of that field is exactly the map type of the placeholder.
C3_SelfReferenceIsTheMapType ==
    (/\ Done
     /\ RootProperty(1) = Ref("A")
     /\ schema.definitions["A"].properties[1].value = Ref("A"))
    => result.fields[1].type.fields[1].type = MapType(Str("string"))

\* C4: in a union of two struct alternatives, a field "b" declared in only one
\* of them appears in the struct of the property, nullable.
C4_FieldOfOneAlternativeIsMerged ==
    Done =>
      \A i \in RootIndices :
        (/\ IsUnionOfTwoStructs(i)
         /\ Declares(Alternative(i, 1), "b") # Declares(Alternative(i, 2), "b"))
        => /\ result.fields[i].type.k = "struct"
           /\ HasField(result.fields[i].type.fields, "b")
           /\ FieldNamed(result.fields[i].type.fields, "b").nullable

\* the two struct alternatives of root property i both declare "a", nullable in
\* one and non-nullable in the other
SharedFieldDiffers(i) ==
    /\ IsUnionOfTwoStructs(i)
    /\ Declares(Alternative(i, 1), "a") /\ Declares(Alternative(i, 2), "a")
    /\ DeclaredNullable(Alternative(i, 1), "a") # DeclaredNullable(Alternative(i, 2), "a")

C6_DefinitionResolvedOnce ==
    /\ \A n \in RefNames : entered[n] <= 1
    /\ Done =>
         \A i, j \in RootIndices :
           (RootProperty(i).ref # "none" /\ RootProperty(i).ref = RootProperty(j).ref)
           => result.fields[i].type = result.fields[j].type

C6_SiblingsShareDefinition ==
    /\ Done
    /\ Len(schema.properties) >= 2
    /\ RootProperty(1) = Ref("A") /\ RootProperty(2) = Ref("A")
    /\ schema.definitions["A"].properties = <<Prop("a", Integer)>>
    /\ entered["A"] = 1
    /\ result.fields[1].type = StructType(<<struct_field(schema.definitions["A"], "a",
                                                         Str("long"), NoMetadata)>>)

IsTimeOfDay(value) == value.ref = "none" /\ value.type = "string" /\ value.format = "time"

\* C7 as stated: a string descriptor of format "time" is mapped to nothing:
\* the translation of a schema with such a property returns no struct.
C7_TimeOfDayIsUnsupported ==
    Done => \A i \in RootIndices : ~IsTimeOfDay(RootProperty(i))

\* C7 amended: a string descriptor of format "time" is mapped to the type
\* "string" without a logicalType, and the unsupported-type error never names
\* the token "string".
C7_TimeOfDayMapsToString ==
    /\ Done =>
         \A i \in RootIndices :
           IsTimeOfDay(RootProperty(i))
           => /\ result.fields[i].type = Str("string")
              /\ result.fields[i].metadata.logicalType = "none"
    /\ (Failed /\ err.kind = "unsupported type") => err.what # "string"

C7_TimeOfDayTranslated ==
    /\ Done
    /\ IsTimeOfDay(RootProperty(1))
    /\ result.fields[1].type = Str("string")

\* what get_type is about to map
MeetsMissingDefinition ==
    /\ InGetType /\ ctl.value.ref # "none"
    /\ ctl.value.ref \notin DOMAIN schema.definitions
MeetsUnsupportedEnum ==
    /\ InGetType /\ ctl.value.ref # "none"
    /\ ctl.value.ref \in DOMAIN schema.definitions
    /\ schema.definitions[ctl.value.ref].isEnum
    /\ schema.definitions[ctl.value.ref].type \notin {"string", "number", "integer"}
MeetsUnsupportedType ==
    /\ InGetType /\ ctl.value.ref = "none"
    /\ EffectiveType(ctl.value) \notin
         {"array", "string", "number", "integer", "boolean", "list", "object"}

\* C8: a $ref to an undefined name, an enum of an unsupported base type or a
\* type token without a rule ends the call in the matching error; no struct is
\* returned and nothing is processed after the failure.
C8_FatalErrorsAbort ==
    [][ /\ MeetsMissingDefinition => (pc' = "error" /\ err'.kind = "missing definition")
        /\ MeetsUnsupportedEnum => (pc' = "error" /\ err'.kind = "unknown enum type")
        /\ MeetsUnsupportedType => (pc' = "error" /\ err'.kind = "unsupported type")
        /\ pc' = "error" => (result' = NoResult /\ emitted' = emitted)
        /\ pc # "error" ]_vars

C8_FailedAfterPartialWork ==
    /\ Failed
    /\ err.kind = "unsupported type"
    /\ Len(schema.properties) = 2
    /\ emitted # {}
    /\ result = NoResult

\* the resolution of n that was in progress hands its struct back (line 67)
ResolutionReturns(n) ==
    /\ pc = "run" /\ ctl.op = "return"
    /\ stack # <<>> /\ Top.k = "ref" /\ Top.class_name = n

\* C9 as stated: once the placeholder is recorded for a name, the cached value
\* of that name never changes again.
C9_PlaceholderIsFinal ==
    [][ \A n \in RefNames :
          classes_seen[n] = CyclePlaceholder => classes_seen'[n] = CyclePlaceholder ]_vars

\* C9 amended: a $ref to a name in progress records the placeholder and gets it;
\* the placeholder stays the cached value, and is what a $ref to the name gets,
\* until the resolution of the name returns; that return overwrites the cached
\* value with the struct of the name, which never changes afterwards and is what
\* every later $ref to the name gets.
C9_PlaceholderUntilResolved ==
    [][ \A n \in RefNames :
          /\ (InGetType /\ class_name = n /\ classes_seen[n] = InProgress)
             => /\ classes_seen'[n] = CyclePlaceholder
                /\ ctl'.op = "return" /\ ctl'.val.spark_type = CyclePlaceholder
          /\ (InGetType /\ class_name = n /\ classes_seen[n] = CyclePlaceholder)
             => /\ ctl'.op = "return" /\ ctl'.val.spark_type = CyclePlaceholder
          /\ (classes_seen[n] = CyclePlaceholder /\ ~ResolutionReturns(n))
             => classes_seen'[n] = CyclePlaceholder
          /\ ResolutionReturns(n)
             => /\ classes_seen'[n] = StructType(ctl.val)
                /\ ctl'.val.spark_type = StructType(ctl.val)
          /\ classes_seen[n].k = "struct"
             => /\ classes_seen'[n] = classes_seen[n]
                /\ (InGetType /\ class_name = n)
                   => (ctl'.op = "return" /\ ctl'.val.spark_type = classes_seen[n]) ]_vars

C9_LaterReferenceGetsTheStruct ==
    /\ Done
    /\ Len(schema.properties) = 2
    /\ RootProperty(1) = Ref("A") /\ RootProperty(2) = Ref("A")
    /\ schema.definitions["A"].properties = <<Prop("a", Ref("A")), Prop("b", Ref("A"))>>
    /\ result.fields[2].type.k = "struct"
    /\ result.fields[2].type.fields[1].type = CyclePlaceholder
    /\ result.fields[2].type.fields[2].type = CyclePlaceholder
    /\ classes_seen["A"] = result.fields[2].type

\* C10: a name is marked in the cache before any property of its body is
\* processed, and when _spark_schema returns no entry is still in progress.
C10_InProgressIsBracketed ==
    /\ \A m \in 1..Len(stack) :
         /\ stack[m].k = "ref" => classes_seen[stack[m].class_name] \in {InProgress, CyclePlaceholder}
         /\ (stack[m].k = "get_fields" /\ stack[m].s.title \in RefNames)
            => classes_seen[stack[m].s.title] \in {InProgress, CyclePlaceholder}
    /\ (pc = "run" /\ ctl.op = "get_fields" /\ ctl.s.title \in RefNames)
       => classes_seen[ctl.s.title] = InProgress
    /\ Done => \A n \in RefNames : classes_seen[n] # InProgress

C10_AllMarksReplaced ==
    /\ Done
    /\ entered["A"] = 1 /\ entered["B"] = 1
    /\ classes_seen["A"].k = "struct" /\ classes_seen["B"].k = "struct"
    /\ \E m \in 1..Len(classes_seen["A"].fields) :
         classes_seen["A"].fields[m].type = CyclePlaceholder

====
